---- MODULE Spec2Model ----
(***************************************************************************)
(* Model of prepare-pangenomes.py: a resumable batch that rewrites the     *)
(* record ids of many FASTA files, concatenates them into one merged file, *)
(* writes one scaffold map per genome, keeps a checkpoint of the samples   *)
(* done, and bgzips the merged file at the end of every invocation.        *)
(*                                                                         *)
(* The state is the file system the script works on (checkpoint file,      *)
(* uncompressed merged file, compressed archive, scaffold-map directory,   *)
(* error log) and the position of the one running process.  One behaviour  *)
(* is a sequence of invocations of the script on the same work list.       *)
(*                                                                         *)
(* Environment assumptions: the work-list file and the merged file can be  *)
(* opened; strings written to a file are on disk when the process ends     *)
(* (an interrupt is a KeyboardInterrupt, which unwinds the with-blocks).   *)
(***************************************************************************)
EXTENDS Naturals, Sequences, FiniteSets, TLC

\* ------------------------------------------------------------------ bounds
MaxItems == 2      \* lines of the work-list file
MaxRecs  == 2      \* records of one FASTA file
MaxRuns  == 2      \* invocations of the script in one behaviour
MaxFaults == 2     \* I/O errors and interrupts in one behaviour

\* ------------------------------------------------------------------ inputs
SampleNames == {"A", "B"}

\* A source path: its directory and the "."-separated parts of its file name.
Paths ==
  { [dir |-> "d1", name |-> <<"a", "fasta">>],
    [dir |-> "d2", name |-> <<"a", "fasta", "gz">>],
    [dir |-> "d1", name |-> <<"b", "fasta">>] }

\* A line of the work-list file, split on whitespace: a well-formed line has a
\* sample name and a path; <<"B">> is a line with one token only.
WellFormedLines == { <<s, p>> : s \in SampleNames, p \in Paths }
ListLines == WellFormedLines \cup { <<"B">> }

HaploIds == {"1", "2"}

\* Path(args.output_fasta).suffix of an invocation
OutputSuffixes == {".gz", ".fasta"}

RECURSIVE SeqsUpTo(_, _)
SeqsUpTo(S, n) ==
  IF n = 0 THEN { <<>> }
  ELSE LET shorter == SeqsUpTo(S, n - 1)
       IN  shorter \cup { Append(q, x) : q \in { t \in shorter : Len(t) = n - 1 }, x \in S }

\* ------------------------------------------------------------------ files
Absent  == [exists |-> FALSE, data |-> <<>>]
File(d) == [exists |-> TRUE, data |-> d]

RECURSIVE Join(_)
Join(parts) ==
  IF Len(parts) = 0 THEN ""
  ELSE IF Len(parts) = 1 THEN parts[1]
  ELSE parts[1] \o "." \o Join(Tail(parts))

PathStr(p) == p.dir \o "/" \o Join(p.name)

\* pathlib's Path.stem: the file name without its last suffix.
Stem(name) == IF Len(name) > 1 THEN SubSeq(name, 1, Len(name) - 1) ELSE name

\* base_name.endswith(".fasta") on the stem
EndsWithFasta(parts) == Len(parts) > 1 /\ parts[Len(parts)] = "fasta"

BaseName(p) ==
  LET stem == Stem(p.name)
  IN  IF EndsWithFasta(stem) THEN SubSeq(stem, 1, Len(stem) - 1) ELSE stem

ScaffoldMapPath(p) == Join(BaseName(p)) \o ".txt"
TmpMap(p) == ScaffoldMapPath(p) \o ".tmp"

MapDirNames == { ScaffoldMapPath(p) : p \in Paths } \cup { TmpMap(p) : p \in Paths }

\* ------------------------------------------------------------------ FASTA input
OrigId(j) ==
  IF j = 1 THEN "chr1" ELSE IF j = 2 THEN "chr2" ELSE IF j = 3 THEN "chr3" ELSE "chr4"

\* Record j of the file at p as SeqIO.parse yields it.
FastaRecord(p, j) ==
  [ id |-> OrigId(j),
    description |-> OrigId(j) \o " assembled",
    seq |-> PathStr(p) \o ":" \o OrigId(j) ]

Delim == "#"

VARIABLES
  list_file,    \* the lines of the work-list file
  nrec,         \* nrec[p]: the number of records of the FASTA file at p
  haplo_id,     \* --haplo_id
  ckpt,         \* the checkpoint file
  temp,         \* the uncompressed merged file (output path without .gz)
  archive,      \* the compressed merged file (the output path)
  mapdir,       \* the scaffold-map directory: file name -> file
  errlog,       \* the error log
  pc,           \* where the running process is; "idle" or "exited" when none runs
  reset,        \* --reset of the running invocation
  output_suffix,\* the suffix of the output path of the running invocation
  done,         \* the checkpoint set loaded at the start of the run
  to_do,        \* the remaining work items
  i,            \* index into to_do of the current item
  r,            \* records of the current genome handled so far
  failures,     \* the failure counter of the orchestrator
  exit_code,    \* exit status of the last invocation, read when pc = "exited"
  runs,         \* invocations started so far that passed the check of the output path
  faults,       \* I/O errors and interrupts so far
  h             \* history of the running invocation, read by the properties only

vars == << list_file, nrec, haplo_id, ckpt, temp, archive, mapdir, errlog, pc, reset,
           output_suffix, done, to_do, i, r, failures, exit_code, runs, faults, h >>

\* A slip in the reader: the entries come out last line first.
read_genome_list_Reversed(lines) ==
  LET TwoParts(parts) == Len(parts) = 2
      kept == SelectSeq(lines, TwoParts)
  IN  [ k \in 1..Len(kept) |-> << kept[Len(kept) + 1 - k][1], kept[Len(kept) + 1 - k][2] >> ]

\* ------------------------------------------------------------------ pure functions
\* read_genome_list: the lines that split into two tokens, in file order.
read_genome_list(lines) ==
  LET TwoParts(parts) == Len(parts) = 2
      kept == SelectSeq(lines, TwoParts)
  IN  [ k \in 1..Len(kept) |-> << kept[k][1], kept[k][2] >> ]

\* load_checkpoint: the set of non-blank lines of the file, empty without a file.
\* (Every line of the file is a whitespace-free sample name, which strip() keeps.)
load_checkpoint(f) ==
  IF ~f.exists THEN {}
  ELSE { f.data[k] : k \in { n \in 1..Len(f.data) : f.data[n] # "" } }

\* A slip in the filter: nothing is skipped.
ToDo_NoFilter(genomes, loaded) == genomes

\* to_do = [(s, p) for (s, p) in genomes if s not in done]
ToDo(genomes, loaded) ==
  LET NotDone(g) == g[1] \notin loaded
  IN  SelectSeq(genomes, NotDone)

\* A slip in the format string: sample name and haplotype id change places.
NewId_Swapped(sample_name, delim, haplo, id) == haplo \o delim \o sample_name \o delim \o id

\* new_id = f"{sample_name}{delim}{haplo_id}{delim}{record.id}"
NewId(sample_name, delim, haplo, id) == sample_name \o delim \o haplo \o delim \o id

\* f"{record.id}\t{new_id}\n", one line of the scaffold map
MapLine(id, new_id) == id \o "\t" \o new_id

\* The record as SeqIO.write gets it: id replaced, description cleared.
Rewritten(rec, new_id) == [ id |-> new_id, description |-> "", seq |-> rec.seq ]

\* open(path, "a") followed by one write
AppendLine(f, line) == File(f.data \o <<line>>)

\* A slip in the mode: the merged file is always opened with "w".
OpenOutput_Truncate(f) == File(<<>>)

\* open(temp_output, mode): "w" creates the file when it does not exist, "a" keeps it
OpenOutput(f) == IF ~f.exists THEN File(<<>>) ELSE f

\* bgzip -f: the compressed file replaces any earlier one, the input is removed
Compressed(f) == File(f.data)

\* A slip in the suffix test: every output path passes.
SuffixOk_Always(suffix) == TRUE

\* line 122: output_path.suffix != ".gz" is a configuration error
SuffixOk(suffix) == suffix = ".gz"

\* A slip in the reset: nothing is removed.
Unlinked_Kept(f, flag) == f

\* lines 129-133: with --reset an existing file is unlinked
Unlinked(f, flag) == IF flag THEN Absent ELSE f

\* line 94: failures += 1
CountFailure(n) == n + 1

\* A slip in the publication: the temp map is not moved to the final name.
Renamed_Nothing(dir, from, to) == dir

\* tmp_map.rename(scaffold_map_path): the temp map replaces the file at the final name
Renamed(dir, from, to) == [dir EXCEPT ![to] = dir[from], ![from] = Absent]

\* A slip in the final test: the failure count is not looked at.
ExitStatus_Zero(n) == 0

\* the exit status main ends with (sys.exit(1) or falling off the end)
ExitStatus(n) == IF n > 0 THEN 1 ELSE 0

\* ------------------------------------------------------------------ history
NoHistory ==
  [ invoked |-> <<>>,        \* items process_one_genome was called for
    raised |-> 0,            \* exceptions raised in the try block of the loop
    outcome |-> <<>>,        \* "ok" or "failed" for every item the try block is through with
    wrote |-> <<>>,          \* records written to the merged file, per item called
    published |-> FALSE,     \* the temp map of the current item has been renamed
    run_start |-> 0,         \* length of the merged file when the orchestrator opened it
    at |-> "none",           \* where the process was when it was interrupted
    prev |-> [item |-> <<>>, wrote |-> 0],  \* the item the invocation before was
                             \* interrupted in, and the records it had written for it
    appended |-> <<>>,       \* sample names appended to the checkpoint
    logged |-> 0,            \* entries written to the error log
    out_start |-> 0,         \* length of the merged file when the current item began
    bgzip_runs |-> 0,        \* calls of bgzip_file
    compressed |-> FALSE,    \* bgzip replaced the archive
    returned |-> FALSE,      \* the orchestrator returned its failure count
    end |-> "none",          \* how the invocation ended
    before |-> [ckpt |-> Absent, temp |-> Absent, archive |-> Absent,
                maps |-> [n \in MapDirNames |-> Absent], errlog |-> Absent] ]

Cur == to_do[i]
CurName == Cur[1]
CurPath == Cur[2]

\* ------------------------------------------------------------------ the program
Init ==
  /\ list_file \in SeqsUpTo(ListLines, MaxItems)
  /\ nrec \in [Paths -> 0..MaxRecs]
  /\ \A p \in Paths :
       (\A k \in 1..Len(list_file) : Len(list_file[k]) < 2 \/ list_file[k][2] # p) => nrec[p] = 0
  /\ haplo_id \in HaploIds
  /\ ckpt = Absent
  /\ temp = Absent
  /\ archive = Absent
  /\ mapdir = [n \in MapDirNames |-> Absent]
  /\ errlog = Absent
  /\ pc = "idle"
  /\ reset = FALSE
  /\ output_suffix = ".gz"
  /\ done = {}
  /\ to_do = <<>>
  /\ i = 1
  /\ r = 0
  /\ failures = 0
  /\ exit_code = 0
  /\ runs = 0
  /\ faults = 0
  /\ h = NoHistory

Inputs == << list_file, nrec, haplo_id >>
Disk == << ckpt, temp, archive, mapdir, errlog >>
Args == << reset, output_suffix, runs >>

\* The environment lets one more operation fail, or lets all of them succeed.
Fault == faults < MaxFaults /\ faults' = faults + 1
NoFault == faults' = faults
Locals == << done, to_do, i, r, failures >>

\* The script is started: argparse has read the arguments.
Start ==
  /\ pc \in {"idle", "exited"}
  /\ runs < MaxRuns
  /\ pc' = "main"
  /\ reset' \in BOOLEAN
  /\ output_suffix' \in OutputSuffixes
  /\ done' = {}
  /\ to_do' = <<>>
  /\ i' = 1
  /\ r' = 0
  /\ failures' = 0
  /\ exit_code' = 0
  /\ h' = [NoHistory EXCEPT
             !.prev = IF h.at \in {"open_tmp", "open_fasta", "records", "checkpoint", "except"}
                      THEN [item |-> to_do[i], wrote |-> h.wrote[Len(h.wrote)]]
                      ELSE [item |-> <<>>, wrote |-> 0],
             !.before = [ckpt |-> ckpt, temp |-> temp, archive |-> archive,
                         maps |-> mapdir, errlog |-> errlog]]
  /\ UNCHANGED << Inputs, Disk, runs, faults >>

\* The process ends with the given status.
Exit(status, how) ==
  /\ pc' = "exited"
  /\ exit_code' = status
  /\ h' = [h EXCEPT !.end = how]

\* main, lines 121-123: the output path must end in .gz
ConfigError ==
  /\ pc = "main"
  /\ ~SuffixOk(output_suffix)
  /\ Exit(1, "config_error")
  /\ UNCHANGED << Inputs, Disk, Args, Locals, faults >>

\* main, lines 129-134: --reset removes the checkpoint and the uncompressed merged file
MainReset ==
  /\ pc = "main"
  /\ SuffixOk(output_suffix)
  /\ ckpt' = Unlinked(ckpt, reset)
  /\ temp' = Unlinked(temp, reset)
  /\ pc' = "orchestrate"
  /\ runs' = runs + 1
  /\ UNCHANGED << Inputs, archive, mapdir, errlog, reset, output_suffix, Locals, exit_code, faults, h >>

\* main line 136 and the orchestrator up to the loop, lines 72-86
LoadAndOpen ==
  /\ pc = "orchestrate"
  /\ done' = load_checkpoint(ckpt)
  /\ to_do' = ToDo(read_genome_list(list_file), load_checkpoint(ckpt))
  /\ temp' = OpenOutput(temp)
  /\ failures' = 0
  /\ i' = 1
  /\ pc' = "loop"
  /\ h' = [h EXCEPT !.run_start = Len(temp.data)]
  /\ UNCHANGED << Inputs, ckpt, archive, mapdir, errlog, Args, r, exit_code, faults >>

\* line 90: the loop calls process_one_genome for the next item
CallProcess ==
  /\ pc = "loop"
  /\ i <= Len(to_do)
  /\ r' = 0
  /\ h' = [h EXCEPT !.invoked = Append(@, Cur), !.out_start = Len(temp.data),
                     !.wrote = Append(@, 0), !.published = FALSE]
  /\ pc' = "open_tmp"
  /\ UNCHANGED << Inputs, Disk, Args, done, to_do, i, failures, exit_code, faults >>

\* An exception is raised inside the try block of the loop.
Raise ==
  /\ Fault
  /\ pc' = "except"
  /\ h' = [h EXCEPT !.raised = @ + 1, !.outcome = Append(@, "failed")]

\* lines 44-55: the map directory is made and the temp map opened for writing
OpenTmpMap ==
  /\ pc = "open_tmp"
  /\ \/ /\ mapdir' = [mapdir EXCEPT ![TmpMap(CurPath)] = File(<<>>)]
        /\ pc' = "open_fasta"
        /\ h' = h
        /\ NoFault
     \/ /\ Raise
        /\ mapdir' = mapdir
  /\ UNCHANGED << Inputs, ckpt, temp, archive, errlog, Args, Locals, exit_code >>

\* line 56: open_fasta_auto
OpenFasta ==
  /\ pc = "open_fasta"
  /\ \/ pc' = "records" /\ h' = h /\ NoFault
     \/ Raise
  /\ UNCHANGED << Inputs, Disk, Args, Locals, exit_code >>

\* lines 57-62: one iteration of the record loop
WriteRecord ==
  /\ pc = "records"
  /\ r < nrec[CurPath]
  /\ LET rec    == FastaRecord(CurPath, r + 1)
         new_id == NewId(CurName, Delim, haplo_id, rec.id)
         tmp    == TmpMap(CurPath)
     IN  \/ \* SeqIO.parse fails on the record
            /\ Raise
            /\ UNCHANGED << mapdir, temp, r >>
         \/ \* the map line is written, SeqIO.write fails
            /\ Raise
            /\ mapdir' = [mapdir EXCEPT ![tmp] = AppendLine(@, MapLine(rec.id, new_id))]
            /\ UNCHANGED << temp, r >>
         \/ /\ mapdir' = [mapdir EXCEPT ![tmp] = AppendLine(@, MapLine(rec.id, new_id))]
            /\ temp' = File(temp.data \o << Rewritten(rec, new_id) >>)
            /\ r' = r + 1
            /\ h' = [h EXCEPT !.wrote[Len(h.wrote)] = @ + 1]
            /\ UNCHANGED << pc, faults >>
  /\ UNCHANGED << Inputs, ckpt, archive, errlog, Args, done, to_do, i, failures, exit_code >>

\* lines 55-65: the files are closed, the temp map is renamed, the function returns
RenameMap ==
  /\ pc = "records"
  /\ r = nrec[CurPath]
  /\ \/ /\ mapdir' = Renamed(mapdir, TmpMap(CurPath), ScaffoldMapPath(CurPath))
        /\ pc' = "checkpoint"
        /\ h' = [h EXCEPT !.published = TRUE]
        /\ NoFault
     \/ /\ Raise
        /\ mapdir' = mapdir
  /\ UNCHANGED << Inputs, ckpt, temp, archive, errlog, Args, Locals, exit_code >>

\* append_checkpoint, line 91
append_checkpoint ==
  /\ pc = "checkpoint"
  /\ \/ /\ ckpt' = AppendLine(ckpt, CurName)
        /\ h' = [h EXCEPT !.appended = Append(@, CurName), !.outcome = Append(@, "ok")]
        /\ i' = i + 1
        /\ pc' = "loop"
        /\ NoFault
     \/ /\ Raise
        /\ UNCHANGED << ckpt, i >>
  /\ UNCHANGED << Inputs, temp, archive, mapdir, errlog, Args, done, to_do, r, failures, exit_code >>

\* the except clause, lines 93-96: count, log, go on with the next item
Except ==
  /\ pc = "except"
  /\ failures' = CountFailure(failures)
  /\ \/ /\ errlog' = AppendLine(errlog, <<CurName, PathStr(CurPath)>>)
        /\ h' = [h EXCEPT !.logged = @ + 1]
        /\ i' = i + 1
        /\ pc' = "loop"
        /\ NoFault
        /\ UNCHANGED exit_code
     \/ \* log_error raises: nothing catches it
        /\ Fault
        /\ Exit(1, "uncaught")
        /\ UNCHANGED << errlog, i >>
  /\ UNCHANGED << Inputs, ckpt, temp, archive, mapdir, Args, done, to_do, r >>

\* lines 98-99: the merged file is closed and the failure count returned
Return ==
  /\ pc = "loop"
  /\ i > Len(to_do)
  /\ h' = [h EXCEPT !.returned = TRUE]
  /\ pc' = "bgzip"
  /\ UNCHANGED << Inputs, Disk, Args, Locals, exit_code, faults >>

\* bgzip_file, line 147
bgzip_file ==
  /\ pc = "bgzip"
  /\ \/ /\ archive' = Compressed(temp)
        /\ temp' = Absent
        /\ pc' = "report"
        /\ h' = [h EXCEPT !.bgzip_runs = @ + 1, !.compressed = TRUE]
        /\ NoFault
        /\ UNCHANGED exit_code
     \/ \* bgzip exits non-zero: check=True raises CalledProcessError
        /\ Fault
        /\ pc' = "exited"
        /\ exit_code' = 1
        /\ h' = [h EXCEPT !.bgzip_runs = @ + 1, !.end = "bgzip_failed"]
        /\ UNCHANGED << archive, temp >>
  /\ UNCHANGED << Inputs, ckpt, mapdir, errlog, Args, Locals >>

\* lines 149-153
Report ==
  /\ pc = "report"
  /\ Exit(ExitStatus(failures), IF failures > 0 THEN "failures" ELSE "ok")
  /\ UNCHANGED << Inputs, Disk, Args, Locals, faults >>

\* The user interrupts the running process (KeyboardInterrupt): open files are closed.
Interrupt ==
  /\ pc \notin {"idle", "exited"}
  /\ Fault
  /\ pc' = "exited"
  /\ exit_code' = 1
  /\ h' = [h EXCEPT !.end = "interrupted", !.at = pc]
  /\ UNCHANGED << Inputs, Disk, Args, Locals >>

Next ==
  \/ Start
  \/ ConfigError
  \/ MainReset
  \/ LoadAndOpen
  \/ CallProcess
  \/ OpenTmpMap
  \/ OpenFasta
  \/ WriteRecord
  \/ RenameMap
  \/ append_checkpoint
  \/ Except
  \/ Return
  \/ bgzip_file
  \/ Report
  \/ Interrupt

Spec == Init /\ [][Next]_vars

\* ------------------------------------------------------------------ properties
genome_entries == read_genome_list(list_file)
Range(q) == { q[k] : k \in 1..Len(q) }

\* The invocation ended by itself, past the check of the output path.
EndedByItself == pc = "exited" /\ h.end \notin {"interrupted", "config_error"}

\* The process is inside the try block or the except clause for to_do[i].
InItem == pc \in {"open_tmp", "open_fasta", "records", "checkpoint", "except"}

\* What the claims expect of the genome (s, p): its map lines and its records.
ExpectedMap(s, p) ==
  [ j \in 1..nrec[p] |->
      OrigId(j) \o "\t" \o s \o Delim \o haplo_id \o Delim \o OrigId(j) ]
ExpectedRecords(s, p) ==
  [ j \in 1..nrec[p] |->
      [ id |-> s \o Delim \o haplo_id \o Delim \o OrigId(j),
        description |-> "",
        seq |-> FastaRecord(p, j).seq ] ]

\* MergedOutput: the merged file, or the archive made from it.
MergedRecords == Range(temp.data) \cup Range(archive.data)

\* C1: every sample name in the checkpoint file has, for one of its work items, the
\* scaffold map complete under its final name and all its records in MergedOutput.
C1_CheckpointInvariant ==
  \A s \in load_checkpoint(ckpt) :
    \E k \in 1..Len(genome_entries) :
      LET p == genome_entries[k][2]
      IN  /\ genome_entries[k][1] = s
          /\ mapdir[ScaffoldMapPath(p)] = File(ExpectedMap(s, p))
          /\ Range(ExpectedRecords(s, p)) \subseteq MergedRecords

\* The disk as a run to completion leaves it: every work item checkpointed, the merged
\* file compressed.
CompleteBefore ==
  /\ \A k \in 1..Len(genome_entries) : genome_entries[k][1] \in load_checkpoint(h.before.ckpt)
  /\ ~h.before.temp.exists
  /\ h.before.archive.exists

\* C2: a run without --reset on a completed batch processes nothing, counts no failure
\* and leaves the archive, the scaffold maps and the checkpoint set as they were.
C2_ResumeIdempotence ==
  (pc = "exited" /\ h.end = "ok" /\ ~reset /\ CompleteBefore) =>
    /\ h.invoked = <<>>
    /\ failures = 0
    /\ archive = h.before.archive
    /\ mapdir = h.before.maps
    /\ load_checkpoint(ckpt) = load_checkpoint(h.before.ckpt)

\* C3: process_one_genome is never called for a sample name of the loaded checkpoint set.
C3_CheckpointExclusivity ==
  \A k \in 1..Len(h.invoked) : h.invoked[k][1] \notin done

\* C3 witness: a resumed run skips a checkpointed item and processes another one.
C3_Witness ==
  /\ done # {}
  /\ \E k \in 1..Len(genome_entries) : genome_entries[k][1] \in done
  /\ h.invoked # <<>>

\* C4: while a genome is processed, the file at its final map name is absent or has no
\* fewer lines than the genome has records.
C4_AtomicMapVisibility ==
  InItem =>
    LET f == mapdir[ScaffoldMapPath(CurPath)]
    IN  ~f.exists \/ Len(f.data) >= nrec[CurPath]

\* C5: when an item failed, the items after it were still attempted, and every item
\* handled without failure is in the checkpoint when the invocation ends.
C5_FailureIsolation ==
  (EndedByItself /\ h.raised > 0) =>
    /\ Len(h.invoked) = Len(to_do)
    /\ \A k \in 1..Len(h.appended) : h.appended[k] \in load_checkpoint(ckpt)

\* C6: whatever failed while handling an item, the loop went on and the orchestrator
\* returned its failure count.
C6_ErrorsStayInLoop ==
  EndedByItself => h.returned

\* C7: bgzip runs once in every invocation that passes the check of the output path,
\* and only after the orchestrator is through with the remaining items.
C7_CompressOnce ==
  /\ h.bgzip_runs <= 1
  /\ h.bgzip_runs = 1 => (h.returned /\ i > Len(to_do))
  /\ EndedByItself => h.bgzip_runs = 1

\* C8: the value returned is the number of remaining items that failed; after a
\* successful compression the exit status is 0 exactly when that number is 0; the
\* status is decided after bgzip has run.
C8_FailureCountAndExit ==
  /\ h.returned =>
       /\ Len(h.invoked) = Len(to_do)
       /\ failures = Len(h.invoked) - Len(h.appended)
  /\ (pc = "exited" /\ h.compressed /\ h.end # "interrupted") =>
       (exit_code = 0 <=> Len(h.invoked) = Len(h.appended))
  /\ pc = "report" => h.bgzip_runs = 1
  /\ (pc = "exited" /\ exit_code = 0) => h.compressed

\* C8 witness: a run in which one item failed and one succeeded exits with status 1
\* after compressing.
C8_Witness ==
  /\ pc = "exited"
  /\ h.compressed
  /\ h.end # "interrupted"
  /\ Len(h.appended) = 1
  /\ Len(h.invoked) = 2
  /\ exit_code = 1

\* C9: when process_one_genome returns for sample S with haplotype id H, the records it
\* wrote carry the ids S+D+H+D+O and its scaffold map holds the lines O<TAB>S+D+H+D+O,
\* one per record, in source order.
C9_RewriteCorrectness ==
  pc = "checkpoint" =>
    /\ mapdir[ScaffoldMapPath(CurPath)] = File(ExpectedMap(CurName, CurPath))
    /\ SubSeq(temp.data, h.out_start + 1, Len(temp.data)) = ExpectedRecords(CurName, CurPath)

\* C9 witness: a genome of two records has been processed.
C9_Witness ==
  /\ pc = "checkpoint"
  /\ nrec[CurPath] = 2
  /\ Len(temp.data) >= 2

\* C10: no sample name is appended to the checkpoint twice in one run.
C10_AppendAtMostOnce ==
  \A a, b \in 1..Len(h.appended) : a # b => h.appended[a] # h.appended[b]

\* C11: a work item is never handed to process_one_genome while its sample name is in
\* the checkpoint file, whether the name was appended by an earlier run or by an
\* earlier line of the same run.
C11_DuplicateSkipped ==
  InItem => CurName \notin load_checkpoint(ckpt)

\* The orchestrator has loaded the checkpoint and has not yet handed the merged file on.
InLoop == pc = "loop" \/ InItem

\* C12: without --reset the checkpoint set keeps the entries it had at the start; in a
\* run it is the loaded set plus the names of the items processed successfully, one new
\* entry for each of them and none for a failed item.
C12_CheckpointMonotone ==
  /\ (pc # "idle" /\ ~reset) => load_checkpoint(h.before.ckpt) \subseteq load_checkpoint(ckpt)
  /\ InLoop =>
       /\ load_checkpoint(ckpt) = done \cup Range(h.appended)
       /\ Cardinality(load_checkpoint(ckpt)) = Cardinality(done) + Len(h.appended)
       /\ Len(h.appended) + h.raised = Len(h.outcome)

RECURSIVE Flatten(_)
Flatten(qs) == IF Len(qs) = 0 THEN <<>> ELSE Head(qs) \o Flatten(Tail(qs))

\* The records this run has written to the merged file: for every item handed to
\* process_one_genome, in the order of the calls, the records it got through.
WrittenBy(k) == SubSeq(ExpectedRecords(h.invoked[k][1], h.invoked[k][2]), 1, h.wrote[k])
RunRecords == Flatten([ k \in 1..Len(h.invoked) |-> WrittenBy(k) ])

\* C13: with --reset the loaded checkpoint set is empty, every work item is in the
\* remaining set, and the merged file holds only the records written by this run.
C13_ResetFromScratch ==
  reset =>
    /\ (InLoop \/ pc = "bgzip") =>
         /\ done = {}
         /\ to_do = genome_entries
         /\ h.run_start = 0
         /\ temp = File(RunRecords)
    /\ pc = "report" => archive = File(RunRecords)

\* --reset on a batch that had left a checkpoint and an uncompressed merged file behind,
\* and the run has processed something.
C13_Witness ==
  /\ reset
  /\ pc = "report"
  /\ load_checkpoint(h.before.ckpt) # {}
  /\ Len(h.before.temp.data) > 0
  /\ Len(archive.data) > 0

\* C14: an invocation whose output path does not end in .gz stops at the check: the
\* checkpoint, the merged file, the archive, the scaffold maps and the error log are as
\* they were when it started, also with --reset, no genome is processed, bgzip is not
\* run, and the exit status is not zero.
C14_ConfigErrorNoChange ==
  (pc # "idle" /\ output_suffix # ".gz") =>
    /\ pc \in {"main", "exited"}
    /\ ckpt = h.before.ckpt
    /\ temp = h.before.temp
    /\ archive = h.before.archive
    /\ mapdir = h.before.maps
    /\ errlog = h.before.errlog
    /\ h.invoked = <<>>
    /\ h.bgzip_runs = 0
    /\ pc = "exited" => (exit_code # 0 /\ h.end \in {"config_error", "interrupted"})

\* A wrong output path together with --reset, on a batch with a checkpoint and an
\* uncompressed merged file.
C14_Witness ==
  /\ output_suffix # ".gz"
  /\ reset
  /\ pc = "exited"
  /\ h.end = "config_error"
  /\ load_checkpoint(ckpt) # {}
  /\ Len(temp.data) > 0

\* The invocation was interrupted inside the try block or the except clause for
\* to_do[i], after it had appended records of that item to the merged file.
InterruptedInItem ==
  /\ pc = "exited"
  /\ h.end = "interrupted"
  /\ h.at \in {"open_tmp", "open_fasta", "records", "checkpoint", "except"}
  /\ h.wrote[Len(h.wrote)] > 0

\* This run follows one that was interrupted in h.prev.item, and has opened the merged file.
ResumedAfterInterrupt ==
  /\ h.prev.item # <<>>
  /\ h.prev.wrote > 0
  /\ ~reset
  /\ InLoop \/ pc = "bgzip"

Count(x, q) == Cardinality({ n \in 1..Len(q) : q[n] = x })
Min(a, b) == IF a < b THEN a ELSE b

\* The checkpoint file as the run found it, after the reset deletion.
BaseCkpt == IF reset THEN Absent ELSE h.before.ckpt

\* The sample names of the items the run has processed successfully, in the order of the calls.
OkNames ==
  LET IsOk(k) == h.outcome[k] = "ok"
      oks == SelectSeq([ k \in 1..Len(h.outcome) |-> k ], IsOk)
  IN  [ n \in 1..Len(oks) |-> h.invoked[oks[n]][1] ]

InOrderOf(q, s) ==
  \E f \in [1..Len(q) -> 1..Len(s)] :
    /\ \A k \in 1..Len(q) : s[f[k]] = q[k]
    /\ \A a, b \in 1..Len(q) : a < b => f[a] < f[b]

\* C16: the remaining items are in the order of their lines in the genome list and are
\* processed in that order; what the run has appended to the merged file is, item after
\* item in that order, the records of each item in one block, all of them for an item
\* processed successfully; and the lines the run has appended to the checkpoint file are
\* the names of the successfully processed items in that order.
C16_ProcessingOrder ==
  (InLoop \/ pc = "bgzip") =>
    /\ InOrderOf(to_do, list_file)
    /\ Len(h.invoked) <= Len(to_do)
    /\ h.invoked = SubSeq(to_do, 1, Len(h.invoked))
    /\ Len(temp.data) >= h.run_start
    /\ SubSeq(temp.data, h.run_start + 1, Len(temp.data)) = RunRecords
    /\ \A k \in 1..Len(h.outcome) :
         h.outcome[k] = "ok" => h.wrote[k] = nrec[h.invoked[k][2]]
    /\ ckpt.data = BaseCkpt.data \o OkNames

\* Two different items with records have both been processed successfully.
C16_Witness ==
  /\ pc = "bgzip"
  /\ Len(to_do) = 2
  /\ to_do[1][1] # to_do[2][1]
  /\ h.outcome = <<"ok", "ok">>
  /\ h.wrote[1] > 0
  /\ h.wrote[2] > 0

\* C17: two work items with different sample names and different source files, both
\* processed successfully in one run, have been published under different scaffold map
\* names and have written through different temp map names.
C17_ExclusiveMaps ==
  \A a, b \in 1..Len(h.outcome) :
    ( /\ a < b
      /\ h.outcome[a] = "ok"
      /\ h.outcome[b] = "ok"
      /\ h.invoked[a][1] # h.invoked[b][1]
      /\ h.invoked[a][2] # h.invoked[b][2] )
    => /\ ScaffoldMapPath(h.invoked[a][2]) # ScaffoldMapPath(h.invoked[b][2])
       /\ TmpMap(h.invoked[a][2]) # TmpMap(h.invoked[b][2])

\* The error-log entries of the items the run has failed on, in the order of the calls.
FailedEntries ==
  LET IsFailed(k) == h.outcome[k] = "failed"
      bad == SelectSeq([ k \in 1..Len(h.outcome) |-> k ], IsFailed)
  IN  [ n \in 1..Len(bad) |-> << h.invoked[bad[n]][1], PathStr(h.invoked[bad[n]][2]) >> ]

\* No item is handed to process_one_genome twice, and when the orchestrator has
\* returned, every remaining item has been handed to it once and is either processed
\* (one checkpoint line, no error-log entry, not counted) or failed (no checkpoint
\* line, one error-log entry, counted once).
ItemsSettled ==
  /\ i <= Len(to_do) + 1
  /\ Len(h.invoked) <= Len(to_do)
  /\ h.invoked = SubSeq(to_do, 1, Len(h.invoked))
  /\ h.returned =>
       /\ h.invoked = to_do
       /\ Len(h.outcome) = Len(to_do)
       /\ ckpt.data = BaseCkpt.data \o OkNames
       /\ errlog.data = h.before.errlog.data \o FailedEntries
       /\ failures = Len(FailedEntries)
       /\ failures + Len(OkNames) = Len(to_do)

\* C18: a run of the orchestrator that was not interrupted ends with its return, and
\* then each remaining item has been attempted exactly once and is processed or failed,
\* and the failure count plus the number of checkpoint appends is the size of the
\* remaining set.
C18_ItemStateMachine ==
  /\ ItemsSettled
  /\ (pc = "exited" /\ h.end \notin {"interrupted", "config_error"}) => h.returned

\* C19: a step that adds a line to the checkpoint file is taken only after the rename of
\* the item's temp map, with the complete map under the final name, no temp map left and
\* all the item's records in the merged file, and the line is the item's sample name;
\* the lines a run has added are those of the items it got through without a failure.
C19_PublishBeforeCheckpoint ==
  [][ /\ Len(ckpt'.data) > Len(ckpt.data) =>
           /\ pc = "checkpoint"
           /\ h.published
           /\ ~mapdir[TmpMap(CurPath)].exists
           /\ mapdir[ScaffoldMapPath(CurPath)] = File(ExpectedMap(CurName, CurPath))
           /\ Len(temp.data) = h.out_start + nrec[CurPath]
           /\ SubSeq(temp.data, h.out_start + 1, Len(temp.data)) = ExpectedRecords(CurName, CurPath)
           /\ ckpt'.data = ckpt.data \o <<CurName>>
      /\ InLoop' => (ckpt.data = BaseCkpt.data \o OkNames)' ]_vars

\* A run in which one item failed and the next, with records, was checkpointed.
C19_Witness ==
  /\ pc = "loop"
  /\ h.outcome = <<"failed", "ok">>
  /\ h.wrote[2] > 0
  /\ ~mapdir[ScaffoldMapPath(to_do[1][2])].exists
====
